---- MODULE Spec2Model ----
(***************************************************************************)
(* The file-backed product store (lib/db: getProdutos, getProdutoPorId,    *)
(* criarProduto, atualizarProduto, excluirProduto) and the HTTP handlers   *)
(* of /api/produtos and /api/produtos/[id] that call it.                   *)
(*                                                                         *)
(* JavaScript values are tagged records [t, n, s].  A JavaScript string is *)
(* the sequence of its characters, so that parseInt, Number and toString   *)
(* are computed digit by digit.  A timestamp is the millisecond count that *)
(* new Date() reads; toISOString() prints it with millisecond resolution,  *)
(* one-to-one and order-preserving, so the count stands for the string.    *)
(* An object is a function from its keys to values; a key whose value is   *)
(* undefined reads like an absent key, and JSON.stringify drops it.        *)
(***************************************************************************)
EXTENDS Integers, Sequences, FiniteSets, TLC

VARIABLES
    file,      \* the array held by src/data/produtos.json, as JSON.parse reads
               \* it, or Torn when its bytes are not JSON
    clock,     \* the millisecond the system clock shows (1 when the model starts)
    req,       \* the request handled last
    resp,      \* the HTTP response to it
    ret,       \* what the store function returned to the handler (the object in memory)
    assigned,  \* the numeric ids criarProduto has assigned so far (history)
    fault,     \* the outcome of the I/O of the request handled last
    figures,   \* the summary figures computed last, by the report or the dashboard
    pending,   \* per overlapping request: what it read and is about to write
    page       \* the React state of the page the browser shows

vars == <<file, clock, req, resp, ret, assigned, fault, figures, pending, page>>

-----------------------------------------------------------------------------
(* Bounds of the model *)

MaxClock == 2
MaxId == 2

-----------------------------------------------------------------------------
(* JavaScript values *)

Undef == [t |-> "undefined", n |-> 0, s |-> <<>>]
Null == [t |-> "null", n |-> 0, s |-> <<>>]
NaN == [t |-> "NaN", n |-> 0, s |-> <<>>]
Num(k) == [t |-> "number", n |-> k, s |-> <<>>]
Str(cs) == [t |-> "string", n |-> 0, s |-> cs]

\* ToBoolean, as `!x` and `x || y` apply it
Truthy(v) ==
    CASE v.t = "undefined" -> FALSE
      [] v.t = "null" -> FALSE
      [] v.t = "NaN" -> FALSE
      [] v.t = "number" -> v.n # 0
      [] v.t = "string" -> v.s # <<>>

\* x || y
OrElse(x, y) == IF Truthy(x) THEN x ELSE y

Digits == <<"0", "1", "2", "3", "4", "5", "6", "7", "8", "9">>

IsDigit(c) == \E d \in 1..10 : Digits[d] = c

DigitVal(c) == (CHOOSE d \in 1..10 : Digits[d] = c) - 1

\* the longest prefix of cs made of decimal digits
RECURSIVE DigitPrefix(_)
DigitPrefix(cs) ==
    IF cs = <<>> \/ ~IsDigit(Head(cs)) THEN <<>>
    ELSE <<Head(cs)>> \o DigitPrefix(Tail(cs))

\* the value of a sequence of decimal digits, most significant first
RECURSIVE DigitsVal(_, _)
DigitsVal(cs, acc) ==
    IF cs = <<>> THEN acc
    ELSE DigitsVal(Tail(cs), 10 * acc + DigitVal(Head(cs)))

\* parseInt(string): an optional sign, then the leading digits; what follows
\* them is ignored, and NaN when there is no digit
parseInt(cs) ==
    LET neg == cs # <<>> /\ Head(cs) = "-"
        rest == IF neg THEN Tail(cs) ELSE cs
        ds == DigitPrefix(rest)
    IN  IF ds = <<>> THEN NaN
        ELSE Num(IF neg THEN 0 - DigitsVal(ds, 0) ELSE DigitsVal(ds, 0))

\* Number(string) for strings of sign, digits and letters: the empty string
\* is 0, a whole decimal numeral is its value, anything else is NaN
StringToNumber(cs) ==
    LET neg == cs # <<>> /\ Head(cs) = "-"
        rest == IF neg THEN Tail(cs) ELSE cs
    IN  IF cs = <<>> THEN Num(0)
        ELSE IF rest # <<>> /\ DigitPrefix(rest) = rest
             THEN Num(IF neg THEN 0 - DigitsVal(rest, 0) ELSE DigitsVal(rest, 0))
             ELSE NaN

\* Number(x)
ToNumber(v) ==
    CASE v.t = "undefined" -> NaN
      [] v.t = "null" -> Num(0)
      [] v.t = "NaN" -> NaN
      [] v.t = "number" -> v
      [] v.t = "string" -> StringToNumber(v.s)

\* the decimal digits of a natural number
RECURSIVE NatToString(_)
NatToString(k) ==
    IF k < 10 THEN <<Digits[k + 1]>>
    ELSE NatToString(k \div 10) \o <<Digits[(k % 10) + 1]>>

\* Number.prototype.toString()
NumberToString(v) ==
    IF v.t = "NaN" THEN <<"N", "a", "N">>
    ELSE IF v.n < 0 THEN <<"-">> \o NatToString(0 - v.n)
    ELSE NatToString(v.n)

\* Math.max(a, b): NaN when either is NaN
Max2(a, b) ==
    IF a.t = "NaN" \/ b.t = "NaN" THEN NaN
    ELSE IF a.n >= b.n THEN a ELSE b

\* Math.max(...xs, 0)
RECURSIVE MathMax0(_)
MathMax0(xs) ==
    IF xs = <<>> THEN Num(0)
    ELSE Max2(Head(xs), MathMax0(Tail(xs)))

\* x + 1
PlusOne(v) == IF v.t = "NaN" THEN NaN ELSE Num(v.n + 1)

-----------------------------------------------------------------------------
(* Objects and JSON *)

\* obj.key
Get(obj, k) == IF k \in DOMAIN obj THEN obj[k] ELSE Undef

\* { ...a, ...b }
Spread(a, b) ==
    [k \in DOMAIN a \cup DOMAIN b |-> IF k \in DOMAIN b THEN b[k] ELSE a[k]]

TaggedKeys ==
    {"nome", "descricao", "preco", "quantidade", "sku", "categoria", "fornecedor"}

\* JSON.parse(JSON.stringify(v)) of one property value: NaN is written as
\* null; the id and the two dates are strings and read back as written
JsonValue(k, v) ==
    IF k \in TaggedKeys /\ v.t = "NaN" THEN Null ELSE v

\* the keys JSON.stringify writes: those whose value is not undefined
JsonKeys(obj) ==
    {k \in DOMAIN obj : ~(k \in TaggedKeys /\ obj[k].t = "undefined")}

\* JSON.parse(JSON.stringify(obj))
JsonObject(obj) == [k \in JsonKeys(obj) |-> JsonValue(k, obj[k])]

\* JSON.parse(JSON.stringify(array))
JsonArray(arr) == [i \in 1..Len(arr) |-> JsonObject(arr[i])]

-----------------------------------------------------------------------------
(* The store: lib/db *)

\* the outcome of the I/O a request performs: json = request.json() parses
\* the body, rd = readFile succeeds, wr = writeFile succeeds, torn = a
\* writeFile that fails has already truncated the file
NoFault == [json |-> TRUE, rd |-> TRUE, wr |-> TRUE, torn |-> FALSE]

\* the content of a file whose bytes JSON.parse rejects (writeFile opens the
\* file with flag 'w', which empties it before the first byte is written)
Torn == <<[torn |-> TRUE]>>

\* what a writeFile that fails leaves in the file
AfterFailedWrite(io) == IF io.torn THEN Torn ELSE file

\* getProdutos(): the parsed file, or [] when reading or parsing throws
getProdutos(io) == IF io.rd /\ file # Torn THEN file ELSE <<>>

\* the search that compares the ids as numbers
FindIndexNumerico(produtos, id) ==
    LET hits == {i \in 1..Len(produtos) : parseInt(produtos[i].id) = parseInt(id)}
    IN  IF hits = {} THEN 0 ELSE CHOOSE i \in hits : \A j \in hits : i <= j

\* produtos.findIndex(p => p.id === id), 0 standing for -1
FindIndex(produtos, id) ==
    LET hits == {i \in 1..Len(produtos) : produtos[i].id = id}
    IN  IF hits = {} THEN 0 ELSE CHOOSE i \in hits : \A j \in hits : i <= j

\* getProdutoPorId(id): the first record with that id, or null (the empty
\* sequence)
getProdutoPorId(id, io) ==
    LET produtos == getProdutos(io)
        index == FindIndex(produtos, id)
    IN  IF index = 0 THEN <<>> ELSE <<produtos[index]>>

\* the next id taken from the length of the array
NovoIdPorTamanho(produtos) == NumberToString(Num(Len(produtos) + 1))

\* the next id with 1, not 0, as the floor of Math.max
NovoIdPisoUm(produtos) ==
    NumberToString(PlusOne(Max2(Num(1),
        MathMax0([i \in 1..Len(produtos) |-> parseInt(produtos[i].id)]))))

\* the next id taken over the ids parseInt can read
NovoIdIgnoraNaN(produtos) ==
    LET lidos == SelectSeq([i \in 1..Len(produtos) |-> parseInt(produtos[i].id)],
                           LAMBDA v : v.t = "number")
    IN  NumberToString(PlusOne(MathMax0(lidos)))

\* (Math.max(...produtos.map(p => parseInt(p.id)), 0) + 1).toString()
NovoId(produtos) ==
    NumberToString(PlusOne(MathMax0([i \in 1..Len(produtos) |-> parseInt(produtos[i].id)])))

\* the object criarProduto builds: { id, ...produtoInput, dataEntrada, dataAtualizacao }
NovoProduto(produtos, produtoInput, agora) ==
    Spread(Spread([id |-> NovoId(produtos)], produtoInput),
           [dataEntrada |-> agora, dataAtualizacao |-> agora])

\* the create that throws when the file cannot be read
criarProdutoFalhaNaLeitura(produtoInput, io) ==
    LET produtos == getProdutos(io)
        novoProduto == NovoProduto(produtos, produtoInput, clock)
        novosProdutos == Append(produtos, novoProduto)
    IN  IF io.rd /\ file # Torn /\ io.wr
        THEN [threw |-> FALSE, ret |-> <<novoProduto>>, file |-> JsonArray(novosProdutos)]
        ELSE [threw |-> TRUE, ret |-> <<>>, file |-> file]

\* the create that puts the new record first
criarProdutoNoInicio(produtoInput, io) ==
    LET produtos == getProdutos(io)
        novoProduto == NovoProduto(produtos, produtoInput, clock)
        novosProdutos == <<novoProduto>> \o produtos
    IN  IF io.wr
        THEN [threw |-> FALSE, ret |-> <<novoProduto>>, file |-> JsonArray(novosProdutos)]
        ELSE [threw |-> TRUE, ret |-> <<>>, file |-> AfterFailedWrite(io)]

\* the create that writes the array it read, not the extended one
criarProdutoEscreveLido(produtoInput, io) ==
    LET produtos == getProdutos(io)
        novoProduto == NovoProduto(produtos, produtoInput, clock)
    IN  IF io.wr
        THEN [threw |-> FALSE, ret |-> <<novoProduto>>, file |-> JsonArray(produtos)]
        ELSE [threw |-> TRUE, ret |-> <<>>, file |-> file]

\* criarProduto(produtoInput): threw = it threw 'Falha ao criar produto',
\* ret = the record it returned, file = the file afterwards
criarProduto(produtoInput, io) ==
    LET produtos == getProdutos(io)
        novoProduto == NovoProduto(produtos, produtoInput, clock)
        novosProdutos == Append(produtos, novoProduto)
    IN  IF io.wr
        THEN [threw |-> FALSE, ret |-> <<novoProduto>>, file |-> JsonArray(novosProdutos)]
        ELSE [threw |-> TRUE, ret |-> <<>>, file |-> AfterFailedWrite(io)]

\* the update stamping dataEntrada in place of dataAtualizacao
ProdutoAtualizadoDataTrocada(antigo, produtoInput, id, agora) ==
    Spread(Spread(antigo, produtoInput), [id |-> id, dataEntrada |-> agora])

\* the update also stamping dataEntrada
ProdutoAtualizadoNovaEntrada(antigo, produtoInput, id, agora) ==
    Spread(Spread(antigo, produtoInput),
           [id |-> id, dataEntrada |-> agora, dataAtualizacao |-> agora])

\* the update leaving dataAtualizacao as it was
ProdutoAtualizadoSemData(antigo, produtoInput, id, agora) ==
    Spread(Spread(antigo, produtoInput), [id |-> id])

\* the object atualizarProduto builds:
\* { ...produtos[index], ...produtoInput, id, dataAtualizacao }
ProdutoAtualizado(antigo, produtoInput, id, agora) ==
    Spread(Spread(antigo, produtoInput), [id |-> id, dataAtualizacao |-> agora])

\* atualizarProduto(id, produtoInput): ret is empty when it returned null
atualizarProduto(id, produtoInput, io) ==
    LET produtos == getProdutos(io)
        index == FindIndex(produtos, id)
        produtoAtualizado == ProdutoAtualizado(produtos[index], produtoInput, id, clock)
        novos == [produtos EXCEPT ![index] = produtoAtualizado]
    IN  IF index = 0
        THEN [threw |-> FALSE, ret |-> <<>>, file |-> file]
        ELSE IF io.wr
        THEN [threw |-> FALSE, ret |-> <<produtoAtualizado>>, file |-> JsonArray(novos)]
        ELSE [threw |-> TRUE, ret |-> <<>>, file |-> AfterFailedWrite(io)]

\* produtos.filter(produto => produto.id !== id)
RECURSIVE FilterOut(_, _)
FilterOut(produtos, id) ==
    IF produtos = <<>> THEN <<>>
    ELSE IF Head(produtos).id # id
         THEN <<Head(produtos)>> \o FilterOut(Tail(produtos), id)
         ELSE FilterOut(Tail(produtos), id)

\* the delete that writes the array it read, not the filtered one
excluirProdutoEscreveLido(id, io) ==
    LET produtos == getProdutos(io)
        novosProdutos == FilterOut(produtos, id)
    IN  IF Len(novosProdutos) = Len(produtos)
        THEN [threw |-> FALSE, ok |-> FALSE, file |-> file]
        ELSE IF io.wr
        THEN [threw |-> FALSE, ok |-> TRUE, file |-> JsonArray(produtos)]
        ELSE [threw |-> TRUE, ok |-> FALSE, file |-> file]

\* the delete without the test for an unchanged length
excluirProdutoSemTeste(id, io) ==
    LET produtos == getProdutos(io)
        novosProdutos == FilterOut(produtos, id)
    IN  IF io.wr
        THEN [threw |-> FALSE, ok |-> TRUE, file |-> JsonArray(novosProdutos)]
        ELSE [threw |-> TRUE, ok |-> FALSE, file |-> file]

\* excluirProduto(id): ok = the boolean it returned
excluirProduto(id, io) ==
    LET produtos == getProdutos(io)
        novosProdutos == FilterOut(produtos, id)
    IN  IF Len(novosProdutos) = Len(produtos)
        THEN [threw |-> FALSE, ok |-> FALSE, file |-> file]
        ELSE IF io.wr
        THEN [threw |-> FALSE, ok |-> TRUE, file |-> JsonArray(novosProdutos)]
        ELSE [threw |-> TRUE, ok |-> FALSE, file |-> AfterFailedWrite(io)]

-----------------------------------------------------------------------------
(* The HTTP handlers: app/api/produtos/route.ts and [id]/route.ts *)

\* a response: body = the records of the JSON body, error = the body is
\* { error: ... }, success = the body is { success: true }; with it, what the
\* store returned to the handler and the file the request leaves
Response(status, body, error, success, r, f) ==
    [status |-> status, body |-> body, error |-> error, success |-> success,
     ret |-> r, file |-> f]

ErrorResponse(status, f) == Response(status, <<>>, TRUE, FALSE, <<>>, f)

\* the test without its last disjunct
DadosIncompletosSemQuantidade(body) ==
    \/ ~Truthy(Get(body, "nome"))
    \/ Get(body, "preco").t = "undefined"

\* !body.nome || body.preco === undefined || body.quantidade === undefined
DadosIncompletos(body) ==
    \/ ~Truthy(Get(body, "nome"))
    \/ Get(body, "preco").t = "undefined"
    \/ Get(body, "quantidade").t = "undefined"

\* the ProdutoInput with quantidade read from body.preco
ProdutoInputTrocado(body) ==
    [nome |-> Get(body, "nome"),
     descricao |-> OrElse(Get(body, "descricao"), Str(<<>>)),
     preco |-> ToNumber(Get(body, "preco")),
     quantidade |-> ToNumber(Get(body, "preco")),
     sku |-> Get(body, "sku"),
     categoria |-> Get(body, "categoria"),
     fornecedor |-> Get(body, "fornecedor")]

\* the ProdutoInput holding only the fields the body carries
ProdutoInputSoPresentes(body) ==
    [k \in DOMAIN body \cap TaggedKeys |->
        IF k \in {"preco", "quantidade"} THEN ToNumber(body[k]) ELSE body[k]]

\* the ProdutoInput that also takes the id and the creation date of the body
ProdutoInputComCorpo(body) ==
    Spread([nome |-> Get(body, "nome"),
            descricao |-> OrElse(Get(body, "descricao"), Str(<<>>)),
            preco |-> ToNumber(Get(body, "preco")),
            quantidade |-> ToNumber(Get(body, "quantidade")),
            sku |-> Get(body, "sku"),
            categoria |-> Get(body, "categoria"),
            fornecedor |-> Get(body, "fornecedor")],
           [k \in DOMAIN body \cap {"id", "dataEntrada"} |->
               IF k = "id" THEN body[k].s ELSE body[k].n])

\* the ProdutoInput both handlers build from the body
ProdutoInputDe(body) ==
    [nome |-> Get(body, "nome"),
     descricao |-> OrElse(Get(body, "descricao"), Str(<<>>)),
     preco |-> ToNumber(Get(body, "preco")),
     quantidade |-> ToNumber(Get(body, "quantidade")),
     sku |-> Get(body, "sku"),
     categoria |-> Get(body, "categoria"),
     fornecedor |-> Get(body, "fornecedor")]

\* the handler answering 500 when the file cannot be read
GETAllComErro(io) ==
    IF ~io.rd \/ file = Torn THEN ErrorResponse(500, file)
    ELSE Response(200, JsonArray(file), FALSE, FALSE, file, file)

\* the handler writing back the array it read
GETAllRegrava(io) ==
    LET produtos == getProdutos(io)
    IN  Response(200, JsonArray(produtos), FALSE, FALSE, produtos, produtos)

\* GET /api/produtos
GETAll(io) ==
    LET produtos == getProdutos(io)
    IN  Response(200, JsonArray(produtos), FALSE, FALSE, produtos, file)

\* the handler answering 400 to a body that is not JSON
POSTJsonInvalido400(body, io) ==
    IF ~io.json \/ DadosIncompletos(body) THEN ErrorResponse(400, file)
    ELSE LET r == criarProduto(ProdutoInputDe(body), io)
         IN  IF r.threw THEN ErrorResponse(500, r.file)
             ELSE Response(201, JsonArray(r.ret), FALSE, FALSE, r.ret, r.file)

\* POST /api/produtos
POST(body, io) ==
    IF ~io.json THEN ErrorResponse(500, file)
    ELSE IF DadosIncompletos(body) THEN ErrorResponse(400, file)
    ELSE LET r == criarProduto(ProdutoInputDe(body), io)
         IN  IF r.threw THEN ErrorResponse(500, r.file)
             ELSE Response(201, JsonArray(r.ret), FALSE, FALSE, r.ret, r.file)

\* GET /api/produtos/[id]
GET(id, io) ==
    LET produto == getProdutoPorId(id, io)
    IN  IF produto = <<>> THEN ErrorResponse(404, file)
        ELSE Response(200, JsonArray(produto), FALSE, FALSE, produto, file)

\* the handler looking the id up before it tests the body
PUTBuscaPrimeiro(id, body, io) ==
    IF ~io.json THEN ErrorResponse(500, file)
    ELSE IF getProdutoPorId(id, io) = <<>> THEN ErrorResponse(404, file)
    ELSE IF DadosIncompletos(body) THEN ErrorResponse(400, file)
    ELSE LET r == atualizarProduto(id, ProdutoInputDe(body), io)
         IN  IF r.threw THEN ErrorResponse(500, r.file)
             ELSE IF r.ret = <<>> THEN ErrorResponse(404, r.file)
             ELSE Response(200, JsonArray(r.ret), FALSE, FALSE, r.ret, r.file)

\* PUT /api/produtos/[id]
PUT(id, body, io) ==
    IF ~io.json THEN ErrorResponse(500, file)
    ELSE IF DadosIncompletos(body) THEN ErrorResponse(400, file)
    ELSE LET r == atualizarProduto(id, ProdutoInputDe(body), io)
         IN  IF r.threw THEN ErrorResponse(500, r.file)
             ELSE IF r.ret = <<>> THEN ErrorResponse(404, r.file)
             ELSE Response(200, JsonArray(r.ret), FALSE, FALSE, r.ret, r.file)

\* the handler answering 500 when the file cannot be read
DELETEErroLeitura500(id, io) ==
    LET r == excluirProduto(id, io)
    IN  IF r.threw \/ ~io.rd \/ file = Torn THEN ErrorResponse(500, r.file)
        ELSE IF ~r.ok THEN ErrorResponse(404, r.file)
        ELSE Response(200, <<>>, FALSE, TRUE, <<>>, r.file)

\* DELETE /api/produtos/[id]
DELETE(id, io) ==
    LET r == excluirProduto(id, io)
    IN  IF r.threw THEN ErrorResponse(500, r.file)
        ELSE IF ~r.ok THEN ErrorResponse(404, r.file)
        ELSE Response(200, <<>>, FALSE, TRUE, <<>>, r.file)

-----------------------------------------------------------------------------
(* The requests the model sends *)

W == Str(<<"W">>)
G == Str(<<"G">>)

\* every field given
BodyFull ==
    [nome |-> W, descricao |-> Str(<<"d">>), preco |-> Num(2), quantidade |-> Num(3),
     sku |-> Str(<<"s">>), categoria |-> Str(<<"c">>), fornecedor |-> Str(<<"f">>)]

\* the required fields only: a negative price, a quantity of zero
BodyMin == [nome |-> G, preco |-> Num(0 - 1), quantidade |-> Num(0)]

\* a null price (what the form sends for an emptied price field) and a
\* quantity that is no number
BodyOdd == [nome |-> W, preco |-> Null, quantidade |-> Str(<<"x">>)]

BodyNoPreco == [nome |-> W, quantidade |-> Num(3)]
BodyNoQuantidade == [nome |-> W, preco |-> Num(2)]
BodyNoNome == [preco |-> Num(2), quantidade |-> Num(3)]
BodyNomeVazio == [nome |-> Str(<<>>), preco |-> Num(2), quantidade |-> Num(3)]

Bodies ==
    {BodyFull, BodyMin, BodyOdd,
     BodyNoPreco, BodyNoQuantidade, BodyNoNome, BodyNomeVazio}

\* the ids requests address
ReqIds == {<<"1">>, <<"2">>, <<"0", "2">>}

NoBody == [k \in {} |-> Undef]

Request(op, id, body) == [op |-> op, id |-> id, body |-> body]

\* a record of the file the model starts from
Produto0(id) ==
    [id |-> id, nome |-> W, descricao |-> Str(<<>>), preco |-> Num(2),
     quantidade |-> Num(3), dataEntrada |-> 0, dataAtualizacao |-> 0]

\* the files the model starts from: empty, or one record, written before
\* the model starts, whose id is a positive integer in decimal, with or
\* without a leading zero
InitFiles == {<<>>, <<Produto0(<<"2">>)>>, <<Produto0(<<"0", "2">>)>>}

-----------------------------------------------------------------------------
(* The state machine: one request at a time *)

\* no summary computed yet
NoFigures == [by |-> "none", totalProdutos |-> 0, valorTotalEstoque |-> Num(0),
              produtosEstoqueBaixo |-> 0]

\* the two requests that may overlap
Procs == {1, 2}

\* a request that has not started, or has been answered
Idle == [pc |-> "idle"]

NoPending == [p \in Procs |-> Idle]

\* no page rendered: useState([]) of the list, useState(false) of isSubmitting
NoPage == [produtos |-> <<>>, isSubmitting |-> FALSE, route |-> "none"]

\* what the client receives of a handler's result
Reply(r) ==
    [status |-> r.status, body |-> r.body, error |-> r.error, success |-> r.success]

Init ==
    /\ file \in InitFiles
    /\ clock = 1
    /\ req = Request("none", <<>>, NoBody)
    /\ resp = Reply(ErrorResponse(0, <<>>))
    /\ ret = <<>>
    /\ assigned = {}
    /\ fault = NoFault
    /\ figures = NoFigures
    /\ pending = NoPending
    /\ page = NoPage

\* a created record keeps the model within its bounds
WithinBounds(r) ==
    r.status = 201 =>
        /\ Len(r.file) <= MaxId
        /\ parseInt(r.ret[1].id).t = "number" => parseInt(r.ret[1].id).n <= MaxId

\* the handler answered rq with r
Handled(rq, r) ==
    /\ req' = rq
    /\ resp' = Reply(r)
    /\ ret' = r.ret
    /\ file' = r.file
    /\ assigned' = IF rq.op = "POST" /\ r.status = 201
                   THEN assigned \cup {parseInt(r.ret[1].id)}
                   ELSE assigned
    /\ UNCHANGED <<clock, figures, pending, page>>

\* the clock advances
Tick ==
    /\ clock < MaxClock
    /\ clock' = clock + 1
    /\ UNCHANGED <<file, req, resp, ret, assigned, fault, figures, pending, page>>

PostStep(body, io) ==
    /\ WithinBounds(POST(body, io))
    /\ Handled(Request("POST", <<>>, body), POST(body, io))
    /\ fault' = io

GetAllStep(io) ==
    Handled(Request("GETALL", <<>>, NoBody), GETAll(io)) /\ fault' = io

GetStep(id, io) ==
    Handled(Request("GET", id, NoBody), GET(id, io)) /\ fault' = io

PutStep(id, body, io) ==
    Handled(Request("PUT", id, body), PUT(id, body, io)) /\ fault' = io

DeleteStep(id, io) ==
    Handled(Request("DELETE", id, NoBody), DELETE(id, io)) /\ fault' = io

Post == \E body \in Bodies : PostStep(body, NoFault)
GetAll == GetAllStep(NoFault)
GetOne == \E id \in ReqIds : GetStep(id, NoFault)
Put == \E id \in ReqIds, body \in Bodies : PutStep(id, body, NoFault)
Delete == \E id \in ReqIds : DeleteStep(id, NoFault)

Next == Tick \/ Post \/ GetAll \/ GetOne \/ Put \/ Delete

Spec == Init /\ [][Next]_vars

-----------------------------------------------------------------------------
(* The same handlers over a file that holds an id parseInt cannot read *)

\* a file, written before the model starts, with an id that is no numeral
NaNFiles == {<<Produto0(<<"a">>)>>, <<Produto0(<<"2">>), Produto0(<<"a">>)>>}

NaNIds == {<<"a">>, <<"N", "a", "N">>}

InitNaN ==
    /\ file \in NaNFiles
    /\ clock = 1
    /\ req = Request("none", <<>>, NoBody)
    /\ resp = Reply(ErrorResponse(0, <<>>))
    /\ ret = <<>>
    /\ assigned = {}
    /\ fault = NoFault
    /\ figures = NoFigures
    /\ pending = NoPending
    /\ page = NoPage

PostNaN == \E body \in {BodyFull, BodyMin} : PostStep(body, NoFault)
GetOneNaN == \E id \in NaNIds : GetStep(id, NoFault)
PutNaN == \E id \in NaNIds, body \in {BodyFull, BodyMin} : PutStep(id, body, NoFault)
DeleteNaN == \E id \in NaNIds : DeleteStep(id, NoFault)

NextNaN == PostNaN \/ GetAll \/ GetOneNaN \/ PutNaN \/ DeleteNaN \/ Tick

SpecNaN == InitNaN /\ [][NextNaN]_vars

-----------------------------------------------------------------------------
(* The same handlers sent bodies that carry keys the form never sends *)

\* an id, a creation date and an update date chosen by the client
ExtraDeRegistro ==
    [id |-> Str(<<"9">>), dataEntrada |-> Num(0), dataAtualizacao |-> Num(0)]

\* a key the store knows nothing of
ExtraDesconhecido == [admin |-> Str(<<"x">>)]

ExtraBodies ==
    {BodyFull, BodyMin}
    \cup {Spread(b, e) : b \in {BodyFull, BodyMin}, e \in {ExtraDeRegistro, ExtraDesconhecido}}

ExtraIds == {<<"1">>, <<"2">>}

PostExtra == \E body \in ExtraBodies : PostStep(body, NoFault)
PutExtra == \E id \in ExtraIds, body \in ExtraBodies : PutStep(id, body, NoFault)
DeleteExtra == \E id \in ExtraIds : DeleteStep(id, NoFault)

NextExtra == PostExtra \/ PutExtra \/ DeleteExtra \/ Tick

SpecExtra == Init /\ [][NextExtra]_vars

-----------------------------------------------------------------------------
(* Updates of records that were stored with every optional field set *)

\* the required fields and a sku
BodySoSku == [nome |-> G, preco |-> Num(2), quantidade |-> Num(3), sku |-> Str(<<"t">>)]

ReplaceBodies == {BodyFull, BodyMin, BodySoSku}

\* a record stored with every field set
ProdutoCompleto(id) ==
    [id |-> id, nome |-> W, descricao |-> Str(<<"d">>), preco |-> Num(2),
     quantidade |-> Num(3), sku |-> Str(<<"s">>), categoria |-> Str(<<"c">>),
     fornecedor |-> Str(<<"f">>), dataEntrada |-> 0, dataAtualizacao |-> 0]

InitReplace ==
    /\ file \in {<<>>, <<ProdutoCompleto(<<"1">>)>>}
    /\ clock = 1
    /\ req = Request("none", <<>>, NoBody)
    /\ resp = Reply(ErrorResponse(0, <<>>))
    /\ ret = <<>>
    /\ assigned = {}
    /\ fault = NoFault
    /\ figures = NoFigures
    /\ pending = NoPending
    /\ page = NoPage

\* every create sets every field
PostReplace == PostStep(BodyFull, NoFault)
PutReplace == \E id \in ExtraIds, body \in ReplaceBodies : PutStep(id, body, NoFault)

NextReplace == PostReplace \/ PutReplace \/ Tick

SpecReplace == InitReplace /\ [][NextReplace]_vars

-----------------------------------------------------------------------------
(* The same handlers with I/O that may fail *)

JsonFails == [json |-> FALSE, rd |-> TRUE, wr |-> TRUE, torn |-> FALSE]
ReadFails == [json |-> TRUE, rd |-> FALSE, wr |-> TRUE, torn |-> FALSE]
WriteFails == [json |-> TRUE, rd |-> TRUE, wr |-> FALSE, torn |-> FALSE]
WriteFailsTorn == [json |-> TRUE, rd |-> TRUE, wr |-> FALSE, torn |-> TRUE]

\* the I/O outcomes a request can meet
Faults == {NoFault, JsonFails, ReadFails, WriteFails, WriteFailsTorn}

FaultBodies == {BodyFull, BodyNoPreco}

PostFault == \E body \in FaultBodies, io \in Faults : PostStep(body, io)
GetAllFault == \E io \in Faults : GetAllStep(io)
GetOneFault == \E id \in ReqIds, io \in Faults : GetStep(id, io)
PutFault == \E id \in ReqIds, body \in FaultBodies, io \in Faults : PutStep(id, body, io)
DeleteFault == \E id \in ReqIds, io \in Faults : DeleteStep(id, io)

NextFault == PostFault \/ GetAllFault \/ GetOneFault \/ PutFault \/ DeleteFault \/ Tick

SpecFault == Init /\ [][NextFault]_vars

-----------------------------------------------------------------------------
(* Two requests that overlap: each store call reads the file at its        *)
(* `await getProdutos()` and writes it at its `await fs.writeFile(...)`,    *)
(* which first opens the file, emptying it, and then writes the characters  *)
(* from the start of the file; another request may run between any two of   *)
(* these. With two requests a file left unparseable by the second write is  *)
(* not written again.                                                       *)

ConcFiles == {<<>>, <<Produto0(<<"1">>)>>, <<Produto0(<<"1">>), Produto0(<<"2">>)>>}

ConcIds == {<<"1">>, <<"2">>}

ConcBodies == {BodyFull, BodyMin}

\* the mutating requests a client may send
ConcRequests ==
    {Request("POST", <<>>, body) : body \in ConcBodies}
    \cup {Request("PUT", id, body) : id \in ConcIds, body \in ConcBodies}
    \cup {Request("DELETE", id, NoBody) : id \in ConcIds}

\* what the handler of rq computes from the file as it is now
Run(rq) ==
    CASE rq.op = "POST" -> POST(rq.body, NoFault)
      [] rq.op = "PUT" -> PUT(rq.id, rq.body, NoFault)
      [] rq.op = "DELETE" -> DELETE(rq.id, NoFault)

\* some request has begun to write the file
SomeoneWrote ==
    \E q \in Procs : pending[q].pc = "write" \/ (pending[q].pc = "done" /\ pending[q].wrote)

\* the number of characters of a key of a record
KeyLen ==
    [id |-> 2, nome |-> 4, descricao |-> 9, preco |-> 5, quantidade |-> 10,
     sku |-> 3, categoria |-> 9, fornecedor |-> 10, dataEntrada |-> 11,
     dataAtualizacao |-> 15]

\* the number of characters of new Date().toISOString() with its quotes
IsoLen == 26

\* the number of characters JSON.stringify gives a value of a record
ValueSize(k, v) ==
    IF k \in {"dataEntrada", "dataAtualizacao"} THEN IsoLen
    ELSE IF k = "id" THEN Len(v) + 2
    ELSE CASE v.t = "string" -> Len(v.s) + 2
           [] v.t = "number" -> Len(NumberToString(v))
           [] OTHER -> 4

\* the characters of the lines `    "key": value` of the keys ks of rec
RECURSIVE LinesSize(_, _)
LinesSize(rec, ks) ==
    IF ks = {} THEN 0
    ELSE LET k == CHOOSE x \in ks : TRUE
         IN  4 + 2 + KeyLen[k] + 2 + ValueSize(k, rec[k]) + LinesSize(rec, ks \ {k})

\* the number of characters of one record in JSON.stringify(array, null, 2):
\* "  {", a line per key, commas and newlines between them, "  }"
RecordSize(rec) ==
    4 + LinesSize(rec, DOMAIN rec) + 2 * (Cardinality(DOMAIN rec) - 1) + 4

RECURSIVE RecordsSize(_)
RecordsSize(f) == IF f = <<>> THEN 0 ELSE RecordSize(Head(f)) + RecordsSize(Tail(f))

\* the number of characters of JSON.stringify(f, null, 2); 0 for a file
\* that was emptied
JsonSize(f) ==
    IF f = Torn THEN 0
    ELSE IF f = <<>> THEN 2
    ELSE 2 + RecordsSize(f) + 2 * (Len(f) - 1) + 2

\* writing novo from offset 0 into a file that holds antigo: the characters
\* of antigo beyond the end of novo stay, and JSON.parse rejects the result
Overlay(novo, antigo) ==
    IF JsonSize(novo) >= JsonSize(antigo) THEN novo ELSE Torn

InitConc ==
    /\ file \in ConcFiles
    /\ clock = 1
    /\ req = Request("none", <<>>, NoBody)
    /\ resp = Reply(ErrorResponse(0, <<>>))
    /\ ret = <<>>
    /\ assigned = {}
    /\ fault = NoFault
    /\ figures = NoFigures
    /\ pending = NoPending
    /\ page = NoPage

\* the request is answered
Answered(rq, r) ==
    /\ req' = rq
    /\ resp' = Reply(r)
    /\ ret' = r.ret
    /\ assigned' = IF rq.op = "POST" /\ r.status = 201
                   THEN assigned \cup {parseInt(r.ret[1].id)}
                   ELSE assigned

\* request p reads the file and builds what it will write; a request that
\* finds nothing to write (400, 404) is answered at once
ConcRead(p, rq) ==
    LET r == Run(rq)
    IN  /\ pending[p].pc = "idle"
        /\ WithinBounds(r)
        /\ IF r.status \in {200, 201}
           THEN /\ pending' = [pending EXCEPT ![p] =
                       [pc |-> "open", rq |-> rq, r |-> r, read |-> file,
                        wrote |-> FALSE, sawWrite |-> SomeoneWrote, last |-> FALSE]]
                /\ UNCHANGED <<req, resp, ret, assigned>>
           ELSE /\ pending' = [pending EXCEPT ![p] =
                       [pc |-> "done", rq |-> rq, r |-> r, read |-> file,
                        wrote |-> FALSE, sawWrite |-> SomeoneWrote, last |-> FALSE]]
                /\ Answered(rq, r)
        /\ UNCHANGED <<file, clock, fault, figures, page>>

\* fs.writeFile of request p opens the file with flag 'w': the file is emptied
ConcOpen(p) ==
    /\ pending[p].pc = "open"
    /\ file' = Torn
    /\ pending' = [pending EXCEPT ![p].pc = "write"]
    /\ UNCHANGED <<clock, req, resp, ret, assigned, fault, figures, page>>

\* fs.writeFile of request p writes its characters from the start of the
\* file, and the request is answered
ConcWrite(p) ==
    /\ pending[p].pc = "write"
    /\ file' = Overlay(pending[p].r.file, file)
    /\ pending' = [q \in Procs |->
           IF q = p THEN [pending[p] EXCEPT !.pc = "done", !.wrote = TRUE, !.last = TRUE]
           ELSE IF pending[q].pc = "idle" THEN pending[q]
           ELSE [pending[q] EXCEPT !.last = FALSE]]
    /\ Answered(pending[p].rq, pending[p].r)
    /\ UNCHANGED <<clock, fault, figures, page>>

Read == \E p \in Procs, rq \in ConcRequests : ConcRead(p, rq)
Open == \E p \in Procs : ConcOpen(p)
Write == \E p \in Procs : ConcWrite(p)

NextConc == Read \/ Open \/ Write \/ Tick

SpecConc == InitConc /\ [][NextConc]_vars

-----------------------------------------------------------------------------
(* Two requests that overlap, each fs.writeFile taken as one atomic step *)

\* the write adding the record a create built to the file as it is now
ConcWriteAnexa(p) ==
    /\ pending[p].pc = "open"
    /\ file' = IF pending[p].rq.op = "POST"
               THEN Append(file, pending[p].r.file[Len(pending[p].r.file)])
               ELSE pending[p].r.file
    /\ pending' = [q \in Procs |->
           IF q = p THEN [pending[p] EXCEPT !.pc = "done", !.wrote = TRUE, !.last = TRUE]
           ELSE IF pending[q].pc = "idle" THEN pending[q]
           ELSE [pending[q] EXCEPT !.last = FALSE]]
    /\ Answered(pending[p].rq, pending[p].r)
    /\ UNCHANGED <<clock, fault, figures, page>>

\* fs.writeFile of request p replaces the file by the array the request
\* built, and the request is answered
ConcWriteAtomic(p) ==
    /\ pending[p].pc = "open"
    /\ file' = pending[p].r.file
    /\ pending' = [q \in Procs |->
           IF q = p THEN [pending[p] EXCEPT !.pc = "done", !.wrote = TRUE, !.last = TRUE]
           ELSE IF pending[q].pc = "idle" THEN pending[q]
           ELSE [pending[q] EXCEPT !.last = FALSE]]
    /\ Answered(pending[p].rq, pending[p].r)
    /\ UNCHANGED <<clock, fault, figures, page>>

WriteAtomic == \E p \in Procs : ConcWriteAtomic(p)

NextAtomic == Read \/ WriteAtomic \/ Tick

SpecAtomic == InitConc /\ [][NextAtomic]_vars

-----------------------------------------------------------------------------
(* The summary figures: app/api/relatorios/pdf/route.ts and the dashboard *)

\* the quantity below which a product counts as low in stock
EstoqueBaixo == 5

\* a * b on numbers and null
Times(a, b) ==
    LET x == ToNumber(a)
        y == ToNumber(b)
    IN  IF x.t = "NaN" \/ y.t = "NaN" THEN NaN ELSE Num(x.n * y.n)

\* a + b on numbers
Plus(a, b) == IF a.t = "NaN" \/ b.t = "NaN" THEN NaN ELSE Num(a.n + b.n)

\* a < k, false when a is NaN
LessThan(a, k) == ToNumber(a).t = "number" /\ ToNumber(a).n < k

\* a <= k, false when a is NaN
AtMost(a, k) == ToNumber(a).t = "number" /\ ToNumber(a).n <= k

\* produtos.reduce((total, produto) => total + (produto.preco * produto.quantidade), 0)
RECURSIVE ReduceValor(_, _)
ReduceValor(produtos, total) ==
    IF produtos = <<>> THEN total
    ELSE ReduceValor(Tail(produtos),
                     Plus(total, Times(Head(produtos).preco, Head(produtos).quantidade)))

\* the report counting a quantity of exactly EstoqueBaixo as low
ResumoRelatorioAteCinco(produtos) ==
    [totalProdutos |-> Len(produtos),
     valorTotalEstoque |-> ReduceValor(produtos, Num(0)),
     produtosEstoqueBaixo |->
         Len(SelectSeq(produtos, LAMBDA produto : AtMost(produto.quantidade, EstoqueBaixo)))]

\* the three figures GET /api/relatorios/pdf computes
ResumoRelatorio(produtos) ==
    [totalProdutos |-> Len(produtos),
     valorTotalEstoque |-> ReduceValor(produtos, Num(0)),
     produtosEstoqueBaixo |->
         Len(SelectSeq(produtos, LAMBDA produto : LessThan(produto.quantidade, EstoqueBaixo)))]

\* the three figures the dashboard (Home) computes
ResumoDashboard(produtos) ==
    [totalProdutos |-> Len(produtos),
     valorTotalEstoque |-> ReduceValor(produtos, Num(0)),
     produtosEstoqueBaixo |->
         Len(SelectSeq(produtos, LAMBDA produto : LessThan(produto.quantidade, EstoqueBaixo)))]

\* the longest collection the figures are computed over
MaxFig == 2

Precos == {Num(0), Num(2), Null}
Quantidades == {Num(4), Num(5), Num(6), Null}

\* a stored record with the given price and quantity
ProdutoCom(preco, quantidade) ==
    [id |-> <<"1">>, nome |-> W, descricao |-> Str(<<>>), preco |-> preco,
     quantidade |-> quantidade, dataEntrada |-> 0, dataAtualizacao |-> 0]

\* the collections of up to MaxFig records, the i-th with id i
FigFiles ==
    UNION {[1..n -> {ProdutoCom(p, q) : p \in Precos, q \in Quantidades}] : n \in 0..MaxFig}

InitFigures ==
    /\ \E f \in FigFiles :
           file = [i \in 1..Len(f) |-> [f[i] EXCEPT !.id = NatToString(i)]]
    /\ clock = 1
    /\ req = Request("none", <<>>, NoBody)
    /\ resp = Reply(ErrorResponse(0, <<>>))
    /\ ret = <<>>
    /\ assigned = {}
    /\ fault = NoFault
    /\ figures = NoFigures
    /\ pending = NoPending
    /\ page = NoPage

\* GET /api/relatorios/pdf: the figures over getProdutos()
ReportStep ==
    /\ figures' = [by |-> "report"] @@ ResumoRelatorio(getProdutos(NoFault))
    /\ UNCHANGED <<file, clock, req, resp, ret, assigned, fault, pending, page>>

\* the dashboard: the figures over the body of GET /api/produtos
DashboardStep ==
    /\ figures' = [by |-> "dashboard"] @@ ResumoDashboard(GETAll(NoFault).body)
    /\ UNCHANGED <<file, clock, req, resp, ret, assigned, fault, pending, page>>

NextFigures == ReportStep \/ DashboardStep

SpecFigures == InitFigures /\ [][NextFigures]_vars

-----------------------------------------------------------------------------
(* The report among the other handlers, with I/O that may fail *)

\* GET /api/relatorios/pdf: the figures over getProdutos(), answered 200 as
\* an HTML page
ReportFaultStep(io) ==
    /\ figures' = [by |-> "report"] @@ ResumoRelatorio(getProdutos(io))
    /\ req' = Request("REPORT", <<>>, NoBody)
    /\ resp' = Reply(Response(200, <<>>, FALSE, FALSE, <<>>, file))
    /\ ret' = <<>>
    /\ fault' = io
    /\ UNCHANGED <<file, clock, assigned, pending, page>>

\* the outcomes of the I/O of a request that only reads
ReadFaults == {NoFault, ReadFails}

ReportFault == \E io \in ReadFaults : ReportFaultStep(io)
GetAllRead == \E io \in ReadFaults : GetAllStep(io)
GetOneRead == \E id \in ReqIds, io \in ReadFaults : GetStep(id, io)
PostRead == \E io \in {NoFault, WriteFailsTorn} : PostStep(BodyFull, io)
DeleteRead == \E id \in ReqIds : DeleteStep(id, NoFault)

NextRead == ReportFault \/ GetAllRead \/ GetOneRead \/ PostRead \/ DeleteRead \/ Tick

SpecRead == Init /\ [][NextRead]_vars

-----------------------------------------------------------------------------
(* The product list page: app/produtos/page.tsx. Each delete the user      *)
(* confirms runs handleDelete of the render the button belongs to, whose    *)
(* `produtos` is the list of that render; the server handles one request    *)
(* at a time.                                                               *)

\* the number of products in the file when the page is opened
MaxRows == 3

\* the file holding the products "1" .. "MaxRows"
ListFile == [i \in 1..MaxRows |-> Produto0(NatToString(i))]

InitPage ==
    /\ file = ListFile
    /\ clock = 1
    /\ req = Request("none", <<>>, NoBody)
    /\ resp = Reply(ErrorResponse(0, <<>>))
    /\ ret = <<>>
    /\ assigned = {}
    /\ fault = NoFault
    /\ figures = NoFigures
    /\ pending = NoPending
    /\ page = [produtos |-> <<>>, isSubmitting |-> FALSE, route |-> "loading"]

\* useEffect: listarProdutos() and setProdutos(data)
ListLoad ==
    /\ page.route = "loading"
    /\ page' = [page EXCEPT !.produtos = GETAll(NoFault).body, !.route = "list"]
    /\ UNCHANGED <<file, clock, req, resp, ret, assigned, fault, figures, pending>>

\* produtos.filter(produto => produto.id !== id)
FiltraLista(produtos, id) == SelectSeq(produtos, LAMBDA produto : produto.id # id)

\* the user presses Excluir on a row and confirms: handleDelete(id) of the
\* current render sends its request
ClickDelete(p, id) ==
    /\ page.route = "list"
    /\ pending[p].pc = "idle"
    /\ id \in {page.produtos[i].id : i \in 1..Len(page.produtos)}
    /\ pending' = [pending EXCEPT ![p] =
           [pc |-> "flight", id |-> id, produtos |-> page.produtos, ok |-> FALSE]]
    /\ UNCHANGED <<file, clock, req, resp, ret, assigned, fault, figures, page>>

\* the server handles the DELETE of request p; response.ok is status 200
ServerDelete(p) ==
    LET r == DELETE(pending[p].id, NoFault)
    IN  /\ pending[p].pc = "flight"
        /\ file' = r.file
        /\ req' = Request("DELETE", pending[p].id, NoBody)
        /\ resp' = Reply(r)
        /\ ret' = r.ret
        /\ pending' = [pending EXCEPT ![p].pc = "answered", ![p].ok = (r.status = 200)]
        /\ UNCHANGED <<clock, assigned, fault, figures, page>>

\* the await of handleDelete resumes: setProdutos(produtos.filter(...)) on
\* success, an alert otherwise
DeleteDone(p) ==
    /\ pending[p].pc = "answered"
    /\ page' = IF pending[p].ok
               THEN [page EXCEPT !.produtos = FiltraLista(pending[p].produtos, pending[p].id)]
               ELSE page
    /\ pending' = [pending EXCEPT ![p].pc = "done"]
    /\ UNCHANGED <<file, clock, req, resp, ret, assigned, fault, figures>>

Click == \E p \in Procs, id \in {NatToString(i) : i \in 1..MaxRows} : ClickDelete(p, id)
Serve == \E p \in Procs : ServerDelete(p)
Done == \E p \in Procs : DeleteDone(p)

NextPage == ListLoad \/ Click \/ Serve \/ Done

SpecPage == InitPage /\ [][NextPage]_vars

-----------------------------------------------------------------------------
(* The new-product and edit-product pages with their form (ProdutoForm):   *)
(* the form validates and calls the page's handleSubmit, which sets         *)
(* isSubmitting, sends the request and clears isSubmitting when it returns  *)

\* what the user may have typed into the form
FormBodies == {BodyFull, BodyMin}

\* ProdutoForm.validate: a name that is not blank, no negative price, no
\* negative quantity
validate(formData) ==
    /\ Get(formData, "nome").s # <<>>
    /\ ~(Get(formData, "preco").n < 0)
    /\ ~(Get(formData, "quantidade").n < 0)

\* the product the edit page was opened on
EditId == <<"1">>

InitForm ==
    /\ file \in {<<>>, <<Produto0(EditId)>>}
    /\ clock = 1
    /\ req = Request("none", <<>>, NoBody)
    /\ resp = Reply(ErrorResponse(0, <<>>))
    /\ ret = <<>>
    /\ assigned = {}
    /\ fault = NoFault
    /\ figures = NoFigures
    /\ pending = NoPending
    /\ \E route \in {"novo", "editar"} :
           page = [produtos |-> <<>>, isSubmitting |-> FALSE, route |-> route]

\* the submit button is pressed: ProdutoForm.handleSubmit validates and calls
\* onSubmit(formData); the page's handleSubmit sets isSubmitting and sends
\* the request
Submit(p, formData) ==
    /\ page.route \in {"novo", "editar"}
    /\ pending[p].pc = "idle"
    /\ validate(formData)
    /\ page' = [page EXCEPT !.isSubmitting = TRUE]
    /\ pending' = [pending EXCEPT ![p] =
           [pc |-> "flight", body |-> formData, route |-> page.route, ok |-> FALSE]]
    /\ UNCHANGED <<file, clock, req, resp, ret, assigned, fault, figures>>

\* the server handles the POST or the PUT of request p
ServerSubmit(p) ==
    LET rq == IF pending[p].route = "novo"
              THEN Request("POST", <<>>, pending[p].body)
              ELSE Request("PUT", EditId, pending[p].body)
        r == Run(rq)
    IN  /\ pending[p].pc = "flight"
        /\ WithinBounds(r)
        /\ file' = r.file
        /\ Answered(rq, r)
        /\ pending' = [pending EXCEPT ![p].pc = "answered",
                                      ![p].ok = (r.status \in {200, 201})]
        /\ UNCHANGED <<clock, fault, figures, page>>

\* the await of the page's handleSubmit resumes: on success an alert and
\* router.push away from the page, on failure setError; finally
\* setIsSubmitting(false)
SubmitDone(p) ==
    /\ pending[p].pc = "answered"
    /\ page' = [page EXCEPT !.isSubmitting = FALSE,
                            !.route = IF pending[p].ok THEN "left" ELSE @]
    /\ pending' = [pending EXCEPT ![p].pc = "done"]
    /\ UNCHANGED <<file, clock, req, resp, ret, assigned, fault, figures>>

FormSubmit == \E p \in Procs, formData \in FormBodies : Submit(p, formData)
FormServe == \E p \in Procs : ServerSubmit(p)
FormDone == \E p \in Procs : SubmitDone(p)

NextForm == FormSubmit \/ FormServe \/ FormDone \/ Tick

SpecForm == InitForm /\ [][NextForm]_vars

-----------------------------------------------------------------------------
(* Vocabulary of the properties *)

\* the ids of the records of collection f
IdsOf(f) == {f[i].id : i \in 1..Len(f)}

\* this step handles a POST, a PUT or a DELETE
Posted == req'.op = "POST" /\ PostStep(req'.body, NoFault)
Putted == req'.op = "PUT" /\ PutStep(req'.id, req'.body, NoFault)
DeleteHandled == req'.op = "DELETE" /\ DeleteStep(req'.id, NoFault)

\* a POST was answered 201, a PUT 200, a DELETE 200 in this step
Created == Posted /\ resp'.status = 201
Updated == Putted /\ resp'.status = 200
Deleted == DeleteHandled /\ resp'.status = 200

\* the body carries the key
Has(body, k) == k \in DOMAIN body

\* the body carries a non-empty name, a price and a quantity
RequiredPresent(body) ==
    /\ Has(body, "nome") /\ body["nome"] # Str(<<>>)
    /\ Has(body, "preco")
    /\ Has(body, "quantidade")

-----------------------------------------------------------------------------
(* C1: no two records of the persisted collection have the same id *)
C1_UniqueIds ==
    \A i, j \in 1..Len(file) : i # j => file[i].id # file[j].id

\* a create has just left two records in the file
C1_Witness == req.op = "POST" /\ resp.status = 201 /\ Len(file) = 2

(* C2 as claimed: every id a successful append assigns is, as a number,     *)
(* strictly greater than every id an earlier append assigned                *)
C2_NeverReassigned ==
    [][Created => \A a \in assigned : parseInt(ret'[1].id).n > a.n]_vars

(* C3: append assigns the decimal string of 1 + max(0, the integer values   *)
(* of the ids in the file); on an empty file that is "1"                    *)
C3_NextId ==
    [][Created =>
        LET vals == {0} \cup {parseInt(file[i].id).n : i \in 1..Len(file)}
            m == CHOOSE x \in vals : \A y \in vals : x >= y
        IN  /\ ret'[1].id = NatToString(m + 1)
            /\ resp'.body[1].id = ret'[1].id
            /\ file = <<>> => ret'[1].id = <<"1">>]_vars

\* a create on an empty file, and a create on a file that holds id "1"
C3_Witness ==
    /\ req.op = "POST" /\ resp.status = 201
    /\ resp.body[1].id = <<"2">> /\ Len(file) = 2 /\ file[1].id = <<"1">>

StoredNumber(v) ==
    IF v.t = "number" THEN v
    ELSE IF v.t = "null" THEN Num(0)
    ELSE IF ToNumber(v).t = "NaN" THEN Null ELSE ToNumber(v)

C5_IdAndCreatedAtKept ==
    [][/\ Updated =>
            LET i == FindIndex(file, req'.id)
            IN  /\ Len(file') = Len(file)
                /\ file'[i].id = file[i].id
                /\ file'[i].dataEntrada = file[i].dataEntrada
                /\ resp'.body[1].id = file[i].id
                /\ resp'.body[1].dataEntrada = file[i].dataEntrada
       /\ \A i \in 1..Len(file), j \in 1..Len(file') :
            file[i].id = file'[j].id => file[i].dataEntrada = file'[j].dataEntrada]_vars

\* a PUT was answered 200 later than the record was created
C5_Witness ==
    /\ req.op = "PUT" /\ resp.status = 200
    /\ resp.body[1].dataEntrada < resp.body[1].dataAtualizacao

(* C6 as claimed: a successful PUT leaves dataAtualizacao strictly later    *)
(* than it was                                                              *)
C6_UpdatedAtStrictlyLater ==
    [][Updated =>
        LET i == FindIndex(file, req'.id)
        IN  file'[i].dataAtualizacao > file[i].dataAtualizacao]_vars

(* C6 amended: a successful PUT sets dataAtualizacao to the clock reading   *)
(* of the call, which is not earlier than the value before, and strictly    *)
(* later when the clock has advanced since that value was stamped           *)
C6_UpdatedAtIsNow ==
    [][Updated =>
        LET i == FindIndex(file, req'.id)
        IN  /\ file'[i].dataAtualizacao = clock
            /\ file'[i].dataAtualizacao >= file[i].dataAtualizacao
            /\ file[i].dataAtualizacao < clock
                 => file'[i].dataAtualizacao > file[i].dataAtualizacao]_vars

\* a PUT was answered 200 in the millisecond the record was created in
C6_Witness ==
    /\ req.op = "PUT" /\ resp.status = 200
    /\ resp.body[1].dataEntrada = resp.body[1].dataAtualizacao
    /\ resp.body[1].id = <<"1">>

(* C7: after a DELETE answered 200 { success: true } a GET of that id is    *)
(* answered 404, and an id that GET answers 404 for is found again only by  *)
(* a create that assigns it                                                 *)
C7_DeletedStaysAbsent ==
    [][/\ \A id \in ReqIds :
            (Deleted /\ resp'.success /\ req'.id = id)
                => GET(id, NoFault)'.status = 404
       /\ \A id \in ReqIds :
            (GET(id, NoFault).status = 404 /\ GET(id, NoFault)'.status = 200)
                => (Created /\ ret'[1].id = id)]_vars

\* a DELETE was answered 200 and other records remain
C7_Witness ==
    /\ req.op = "DELETE" /\ resp.status = 200 /\ resp.success
    /\ Len(file) >= 1

\* records a and b agree on every field, an absent one reading as undefined
SameFields(a, b) == \A k \in DOMAIN a \cup DOMAIN b : Get(a, k) = Get(b, k)

ReadBack(R, k) ==
    IF k \in TaggedKeys /\ Get(R, k).t = "NaN" THEN Null ELSE Get(R, k)

C9_IncompletePostRejected ==
    [][(Posted /\ ~RequiredPresent(req'.body)) =>
        /\ resp'.status = 400 /\ resp'.error /\ resp'.body = <<>>
        /\ file' = file]_vars

\* a POST without quantity was answered 400
C9_Witness ==
    /\ req.op = "POST" /\ resp.status = 400
    /\ ~Has(req.body, "quantidade") /\ Has(req.body, "preco")

(* C10: a DELETE, or a PUT with the required fields, of an id no record has *)
(* is answered 404 with an error body and leaves the file as it was         *)
C10_UnknownIdNotFound ==
    [][((DeleteHandled \/ (Putted /\ RequiredPresent(req'.body)))
            /\ req'.id \notin IdsOf(file)) =>
        /\ resp'.status = 404 /\ resp'.error
        /\ file' = file]_vars

\* a DELETE of an id the non-empty file does not hold was answered 404
C10_Witness ==
    /\ req.op = "DELETE" /\ resp.status = 404 /\ resp.error
    /\ Len(file) >= 1 /\ req.id \notin IdsOf(file)

(* C11: GET of an id is answered 200 with the stored record exactly when   *)
(* the file holds a record whose id is string-equal to the requested id,    *)
(* and 404 with an error body otherwise                                     *)
C11_GetById ==
    req.op = "GET" =>
        IF \E i \in 1..Len(file) : file[i].id = req.id
        THEN /\ resp.status = 200 /\ ~resp.error
             /\ \E i \in 1..Len(file) : file[i].id = req.id /\ resp.body = <<file[i]>>
        ELSE resp.status = 404 /\ resp.error /\ resp.body = <<>>

\* GET of "2" was answered 404 while the file holds the id "02"
C11_Witness ==
    /\ req.op = "GET" /\ req.id = <<"2">> /\ resp.status = 404
    /\ Len(file) = 1 /\ file[1].id = <<"0", "2">>

(* C12: when reading or parsing the file fails, getProdutos returns the     *)
(* empty sequence and GET of the collection answers 200 with an empty       *)
(* array, never 500                                                         *)
C12_ReadFailureListsNothing ==
    /\ \A io \in Faults : (~io.rd \/ file = Torn) => getProdutos(io) = <<>>
    /\ (req.op = "GETALL" /\ (~fault.rd \/ file = Torn)) =>
           resp.status = 200 /\ resp.body = <<>> /\ ~resp.error

\* the collection was requested while the file held a record and the read failed
C12_Witness ==
    /\ req.op = "GETALL" /\ ~fault.rd /\ file # Torn /\ Len(file) > 0
    /\ resp.status = 200

\* the request just handled reached its writeFile, and the writeFile failed
WriteFailed ==
    /\ fault'.json /\ fault'.rd /\ ~fault'.wr
    /\ \/ req'.op = "POST" /\ ~DadosIncompletos(req'.body)
       \/ /\ req'.op = "PUT" /\ ~DadosIncompletos(req'.body)
          /\ FindIndex(getProdutos(NoFault), req'.id) # 0
       \/ req'.op = "DELETE" /\ FindIndex(getProdutos(NoFault), req'.id) # 0

(* C13: when the file write fails during a create, update or delete, the   *)
(* handler answers 500 with an error body and the collection read from the  *)
(* file is the same as before the request                                   *)
C13_WriteFailureKeepsFile ==
    [][WriteFailed =>
           /\ resp'.status = 500 /\ resp'.error
           /\ getProdutos(NoFault)' = getProdutos(NoFault)]_vars

\* a failed write is answered 500 with an error body
WriteFailureAnswers500 ==
    [][WriteFailed => resp'.status = 500 /\ resp'.error]_vars

(* C17: a POST or PUT whose body cannot be parsed as JSON is answered 500  *)
(* with an error body, not 400, and the file is unchanged                   *)
C17_BadJsonIs500 ==
    [][(req'.op \in {"POST", "PUT"} /\ ~fault'.json) =>
           resp'.status = 500 /\ resp'.error /\ file' = file]_vars

\* a PUT to a stored id with a body that is not JSON
C17_Witness ==
    /\ ~fault.json /\ resp.status = 500 /\ file # Torn
    /\ req.op = "PUT" /\ req.id \in IdsOf(file)

(* C15: after any sequence of POST and PUT requests, every record in the   *)
(* file has a price that is a non-negative number and a quantity that is a  *)
(* non-negative integer                                                     *)
C15_StoredPriceAndQuantityValid ==
    \A i \in 1..Len(file) :
        /\ file[i].preco.t = "number" /\ file[i].preco.n >= 0
        /\ file[i].quantidade.t = "number" /\ file[i].quantidade.n >= 0

(* C16: a PUT whose body lacks nome, preco or quantidade is answered 400   *)
(* and leaves the file unchanged, whether the addressed id is stored or     *)
(* not: the test of the body comes before the lookup                        *)
C16_IncompletePutRejected ==
    [][(Putted /\ DadosIncompletos(req'.body)) =>
           resp'.status = 400 /\ resp'.error /\ file' = file]_vars

\* an incomplete PUT to an id the file does not hold was answered 400
C16_Witness ==
    /\ req.op = "PUT" /\ DadosIncompletos(req.body) /\ resp.status = 400
    /\ Len(file) > 0 /\ req.id \notin IdsOf(file)

\* the records of f whose id is not id, in the order of f
Without(f, id) == SelectSeq(f, LAMBDA p : p.id # id)

(* C19: each successful mutation changes only its target. A create leaves  *)
(* every stored record as it was and puts the new record last; an update    *)
(* keeps the length, the order and every other record; a delete removes     *)
(* exactly the records with the given id and keeps the others in order      *)
C19_OnlyTargetChanges ==
    [][/\ Created =>
            /\ Len(file') = Len(file) + 1
            /\ \A i \in 1..Len(file) : file'[i] = file[i]
            /\ file'[Len(file')].id = ret'[1].id
       /\ Updated =>
            /\ Len(file') = Len(file)
            /\ \A i \in 1..Len(file) :
                   /\ file'[i].id = file[i].id
                   /\ file[i].id # req'.id => file'[i] = file[i]
       /\ Deleted => file' = Without(file, req'.id)]_vars

\* the first of two stored records was updated: the second was created
\* after it and is still there
C19_Witness ==
    /\ req.op = "PUT" /\ resp.status = 200
    /\ Len(file) = 2 /\ file[1].id = req.id /\ file[2].id # req.id

\* the file holds an id parseInt reads as NaN
HasUnreadableId(f) == \E i \in 1..Len(f) : parseInt(f[i].id) = NaN

(* C20: while a record of the file has an id that parseInt cannot read as  *)
(* a number, every create assigns the id "NaN", so two such creates leave   *)
(* two records sharing the id "NaN"                                         *)
C20_NaNIdPropagates ==
    [][(Created /\ HasUnreadableId(file)) =>
           /\ ret'[1].id = <<"N", "a", "N">>
           /\ file'[Len(file')].id = <<"N", "a", "N">>
           /\ HasUnreadableId(file')]_vars

\* two creates have left two records with the id "NaN"
C20_Witness ==
    /\ req.op = "POST" /\ resp.status = 201
    /\ Len(file) = 2 /\ file[1].id = <<"N", "a", "N">> /\ file[2].id = <<"N", "a", "N">>

\* the number a stored price or quantity counts as: null counts as 0
ValueOf(v) == IF v.t = "number" THEN v.n ELSE 0

\* the sum over the records of f of price times quantity
RECURSIVE StockValue(_)
StockValue(f) ==
    IF f = <<>> THEN 0
    ELSE ValueOf(Head(f).preco) * ValueOf(Head(f).quantidade) + StockValue(Tail(f))

(* C18: for any file, the dashboard and the report compute the same three  *)
(* figures: the number of records, the sum of price times quantity, and     *)
(* the number of records whose quantity is strictly less than 5             *)
C18_SameFigures ==
    /\ ResumoRelatorio(getProdutos(NoFault)) = ResumoDashboard(GETAll(NoFault).body)
    /\ figures.by # "none" =>
           /\ figures.totalProdutos = Len(file)
           /\ figures.valorTotalEstoque = Num(StockValue(file))
           /\ figures.produtosEstoqueBaixo =
                  Cardinality({i \in 1..Len(file) : ValueOf(file[i].quantidade) < 5})

\* the report over a record with quantity 5 and a record with quantity 4:
\* one record is low in stock
C18_Witness ==
    /\ figures.by = "report" /\ Len(file) = 2
    /\ file[1].quantidade = Num(5) /\ file[2].quantidade = Num(4)
    /\ file[1].preco = Num(2)
    /\ figures.produtosEstoqueBaixo = 1 /\ figures.valorTotalEstoque.n >= 10

\* both requests have written, and each read the file before either wrote
BothReadThenBothWrote ==
    \A p \in Procs :
        pending[p].pc = "done" /\ pending[p].wrote /\ ~pending[p].sawWrite

\* the file f is the file snap with the request rq, answered r, applied
AppliedTo(snap, rq, r, f) ==
    CASE rq.op = "POST" ->
             /\ Len(f) = Len(snap) + 1
             /\ \A i \in 1..Len(snap) : f[i] = snap[i]
             /\ f[Len(f)].id = r.ret[1].id /\ f[Len(f)].nome = rq.body.nome
      [] rq.op = "PUT" ->
             /\ Len(f) = Len(snap)
             /\ \A i \in 1..Len(snap) :
                    /\ f[i].id = snap[i].id
                    /\ snap[i].id # rq.id => f[i] = snap[i]
                    /\ snap[i].id = rq.id => f[i].nome = rq.body.nome
      [] rq.op = "DELETE" -> f = Without(snap, rq.id)

(* C14: when two mutating requests overlap so that both read the file      *)
(* before either writes, the collection in the file after both writes is    *)
(* the later writer's result computed from the file both read: the earlier  *)
(* writer's change is absent, nothing is merged, and both requests are      *)
(* answered with success                                                    *)
C14_LastWriteWins ==
    BothReadThenBothWrote =>
        /\ \A p \in Procs : pending[p].r.status \in {200, 201} /\ ~pending[p].r.error
        /\ \A p \in Procs :
               pending[p].last =>
                   /\ \A q \in Procs : pending[q].read = pending[p].read
                   /\ AppliedTo(pending[p].read, pending[p].rq, pending[p].r,
                                getProdutos(NoFault))

\* the last-write-wins outcome whenever the two writes left a file that parses
LastWriteWinsIfFileParses == file # Torn => C14_LastWriteWins

(* C21: GET of the collection, GET of one id and GET of the report never    *)
(* write the file: it is the same before and after each of them, under      *)
(* every outcome, a read failure included                                   *)
C21_ReadsDoNotWrite ==
    [][req'.op \in {"GETALL", "GET", "REPORT"} => file' = file]_vars

\* the report was computed over a stored record whose read failed: it
\* counts no product, and the record is still in the file
C21_Witness ==
    /\ req.op = "REPORT" /\ ~fault.rd /\ figures.totalProdutos = 0
    /\ file # Torn /\ Len(file) > 0

\* the request just handled could not read the file, and could write it
ReadFailed == fault'.json /\ ~fault'.rd /\ fault'.wr

(* C22: if reading the file fails during a create while the write that     *)
(* follows succeeds, the create is answered 201 with the id "1" and the     *)
(* file then holds that record alone: every record stored before is gone    *)
C22_CreateAfterFailedReadOverwrites ==
    [][(req'.op = "POST" /\ ReadFailed /\ ~DadosIncompletos(req'.body)) =>
           /\ resp'.status = 201 /\ ret'[1].id = <<"1">>
           /\ Len(file') = 1 /\ file'[1].id = <<"1">>]_vars

\* a create whose read failed was given the id "1" after an earlier create
\* had been given the id "2", and its record is alone in the file
C22_Witness ==
    /\ req.op = "POST" /\ ~fault.rd /\ resp.status = 201
    /\ Num(2) \in assigned /\ Len(file) = 1 /\ file[1].id = <<"1">>

(* C23: if reading the file fails during a GET by id, a PUT with a valid    *)
(* body, or a DELETE, also of an id the file holds, the handler answers 404 *)
(* (not 500) and writes nothing                                             *)
C23_FailedReadIsNotFound ==
    [][(/\ ~fault'.rd /\ fault'.json
        /\ \/ req'.op \in {"GET", "DELETE"}
           \/ req'.op = "PUT" /\ ~DadosIncompletos(req'.body)) =>
           resp'.status = 404 /\ resp'.error /\ file' = file]_vars

\* a DELETE of a stored id whose read failed was answered 404, and the
\* record is still in the file
C23_Witness ==
    /\ req.op = "DELETE" /\ ~fault.rd /\ resp.status = 404
    /\ file # Torn /\ req.id \in IdsOf(file)

\* the two bodies agree on the seven fields the form edits
SameEditable(a, b) == \A k \in TaggedKeys : Get(a, k) = Get(b, k)

(* C24: the record stored by POST or PUT depends only on the nome,         *)
(* descricao, preco, quantidade, sku, categoria and fornecedor of the body: *)
(* a request that differs from the one sent only in other keys (id,         *)
(* dataEntrada, dataAtualizacao, an unknown key) leaves the same file and   *)
(* gets the same response, so the client cannot choose an id or overwrite   *)
(* a dataEntrada                                                            *)
C24_OnlyEditableFieldsCount ==
    [][/\ Posted =>
            \A b \in {x \in ExtraBodies : SameEditable(req'.body, x)} :
                LET r == POST(b, NoFault)
                IN  file' = r.file /\ resp' = Reply(r)
       /\ Putted =>
            \A b \in {x \in ExtraBodies : SameEditable(req'.body, x)} :
                LET r == PUT(req'.id, b, NoFault)
                IN  file' = r.file /\ resp' = Reply(r)
       /\ Created => ret'[1].id # <<"9">>
       /\ Updated => \A i \in 1..Len(file) :
                         file'[i].dataEntrada = file[i].dataEntrada]_vars

\* a PUT whose body carried an id and a dataEntrada updated a record
\* created after the clock had advanced: its id and dataEntrada are kept
C24_Witness ==
    /\ req.op = "PUT" /\ resp.status = 200 /\ "dataEntrada" \in DOMAIN req.body
    /\ \E i \in 1..Len(file) :
           file[i].id = req.id /\ file[i].dataEntrada > 0

(* C25: a successful PUT replaces all seven editable fields rather than     *)
(* merging: sku, categoria or fornecedor left out of the body is absent     *)
(* from the stored record afterwards even if it had a value before, and a   *)
(* descricao left out becomes the empty string                              *)
C25_PutReplacesAllFields ==
    [][Updated =>
           LET i == FindIndex(file, req'.id)
               body == req'.body
           IN  /\ file'[i].nome = body.nome
               /\ file'[i].preco = StoredNumber(body.preco)
               /\ file'[i].quantidade = StoredNumber(body.quantidade)
               /\ file'[i].descricao =
                      IF Has(body, "descricao") THEN body.descricao ELSE Str(<<>>)
               /\ \A k \in {"sku", "categoria", "fornecedor"} :
                      IF Has(body, k)
                      THEN k \in DOMAIN file'[i] /\ file'[i][k] = body[k]
                      ELSE k \notin DOMAIN file'[i]]_vars

\* every record was stored with a sku, a categoria, a fornecedor and a
\* descricao; after a PUT without them the record has none and its descricao
\* is empty
C25_Witness ==
    /\ req.op = "PUT" /\ resp.status = 200 /\ req.body = BodyMin
    /\ \E i \in 1..Len(file) :
           /\ file[i].id = req.id /\ file[i].descricao = Str(<<>>)
           /\ DOMAIN file[i] \cap {"sku", "categoria", "fornecedor"} = {}

(* C26: with a clock that never goes back, every record of the file has    *)
(* dataEntrada <= dataAtualizacao in every reachable state, after any       *)
(* sequence of creates, updates and deletes                                 *)
C26_CreatedNotAfterUpdated ==
    \A i \in 1..Len(file) : file[i].dataEntrada <= file[i].dataAtualizacao

\* a record created by the model was updated after the clock had advanced,
\* next to another record
C26_Witness ==
    /\ Len(file) = 2
    /\ \E i \in 1..Len(file) :
           0 < file[i].dataEntrada /\ file[i].dataEntrada < file[i].dataAtualizacao

(* C27: under any interleaving of the read step and the write step of      *)
(* overlapping create, update and delete requests, each file write atomic   *)
(* and the ids in the file at the start distinct integers, the file never   *)
(* holds two records with the same id                                       *)
C27_UniqueIdsUnderOverlap ==
    \A i, j \in 1..Len(file) : i # j => file[i].id # file[j].id

\* two creates read the same file and were given the same id; both wrote
C27_Witness ==
    /\ \A p \in Procs :
           /\ pending[p].pc = "done" /\ pending[p].wrote /\ ~pending[p].sawWrite
           /\ pending[p].rq.op = "POST"
    /\ pending[1].r.ret[1].id = pending[2].r.ret[1].id
    /\ pending[1].rq.body # pending[2].rq.body

(* C28: under overlapping requests, once a DELETE of an id has been         *)
(* answered 200 { success: true }, no record with that id is in the file    *)
(* again unless a create assigns the id: an update or a create that read    *)
(* the file before the delete wrote does not bring the record back          *)
C28_DeletedStaysDeleted ==
    \A p \in Procs :
        (/\ pending[p].pc = "done" /\ pending[p].rq.op = "DELETE"
         /\ pending[p].r.status = 200) =>
            \/ pending[p].rq.id \notin IdsOf(file)
            \/ \E q \in Procs :
                   /\ pending[q].pc = "done" /\ pending[q].rq.op = "POST"
                   /\ pending[q].r.status = 201
                   /\ pending[q].r.ret[1].id = pending[p].rq.id

(* C29: on the product list page, after a delete request for a product     *)
(* has succeeded, the displayed list no longer holds that product, and the  *)
(* product stays absent when several delete requests started from the same  *)
(* rendered list complete in any order                                      *)
C29_DeletedRowStaysAbsent ==
    \A p \in Procs :
        (pending[p].pc = "done" /\ pending[p].ok) =>
            pending[p].id \notin {page.produtos[i].id : i \in 1..Len(page.produtos)}

\* right after its own delete has completed, the list of the page does not
\* hold the product
DeletedRowAbsentAtCompletion ==
    [][\A p \in Procs :
           (pending[p].pc = "answered" /\ pending'[p].pc = "done" /\ pending[p].ok) =>
               pending[p].id \notin {page'.produtos[i].id : i \in 1..Len(page'.produtos)}]_vars

\* the requests the page has sent and not yet seen return
Outstanding == {p \in Procs : pending[p].pc \in {"flight", "answered"}}

(* C30: on the new-product and edit-product pages, while a submission is    *)
(* in flight (isSubmitting is true) a second submission cannot start: at    *)
(* most one create or update request issued by the page is outstanding at   *)
(* any time                                                                 *)
C30_OneSubmissionAtATime == Cardinality(Outstanding) <= 1

====
